---- MODULE Spec2Model ----
(***************************************************************************)
(* Model of the multi-agent financial report generator:                    *)
(*   helper.py  read_file_to_df, prepare_financial_data                    *)
(*   agent.py   DataAssistantAgent / RiskAssessorAgent /                   *)
(*              MarketStrategistAgent                                      *)
(*   main.py    StyledPDF, generate_pdf_report, FinancialPipeline          *)
(*                                                                         *)
(* A Python str is a sequence of characters; a character is a one-symbol   *)
(* string, the non-ASCII ones being named:                                 *)
(*   "BULLET" U+2022 (not Latin-1), "ARROW" U+2192 (not Latin-1),          *)
(*   "EACUTE" U+00E9 (Latin-1, not ASCII);  "BACKTICK" is U+0060.          *)
(***************************************************************************)
EXTENDS Integers, Sequences, FiniteSets, TLC

VARIABLES
    \* --- FinancialPipeline.execute ---
    pc,            \* position of execute
    file_paths,    \* argument of execute
    data_out,      \* result of DataAssistantAgent.run
    risk_out,      \* result of RiskAssessorAgent.run
    strat_in,      \* input handed to MarketStrategistAgent.run
    strat_out,     \* result of MarketStrategistAgent.run
    frame,         \* locals of the agent whose call is in flight
    calls,         \* log of the narrative-generation calls (issue/return/fail)
    error,         \* the exception that ended the run, "" when none
    \* --- generate_pdf_report ---
    text,          \* argument of generate_pdf_report
    custom_font,   \* StyledPDF.custom_font
    writable,      \* whether output_path can be written
    report,        \* result of generate_pdf_report
    \* --- _strip_markdown ---
    md_in,         \* argument of _strip_markdown
    md_prev,       \* argument of the latest application
    md_out,        \* its result
    md_pass        \* how many times it has been applied

vars == <<pc, file_paths, data_out, risk_out, strat_in, strat_out, frame, calls, error,
          text, custom_font, writable, report, md_in, md_prev, md_out, md_pass>>

pipeVars == <<pc, file_paths, data_out, risk_out, strat_in, strat_out, frame, calls,
              error>>
pdfVars == <<text, custom_font, writable, report>>
mdVars == <<md_in, md_prev, md_out, md_pass>>

(***************************************************************************)
(* Bounds                                                                  *)
(***************************************************************************)
MaxMdLen == 3      \* longest _strip_markdown input drawn
MaxLines == 3      \* most lines of a generate_pdf_report input drawn
MaxFiles == 2      \* most paths handed to execute

(***************************************************************************)
(* Strings                                                                 *)
(***************************************************************************)
Min(S) == CHOOSE x \in S : \A y \in S : x <= y

\* characters str.strip() and the regex class \s remove
Whitespace == {" ", "\n"}

NonAscii == {"BULLET", "ARROW", "EACUTE"}
NonLatin1 == {"BULLET", "ARROW"}

\* first index >= i of s holding a character outside set (Len(s)+1 when none)
SkipWhile(s, i, set) ==
    Min({p \in i..(Len(s) + 1) : p = Len(s) + 1 \/ s[p] \notin set})

\* s[i..] starts with d
At(s, i, d) ==
    /\ i + Len(d) - 1 <= Len(s)
    /\ \A k \in 1..Len(d) : s[i + k - 1] = d[k]

StartsWith(s, d) == At(s, 1, d)

EndsWith(s, d) == Len(s) >= Len(d) /\ At(s, Len(s) - Len(d) + 1, d)

\* str.strip()
strip(s) ==
    LET first == SkipWhile(s, 1, Whitespace)
        last == IF first > Len(s) THEN 0
                ELSE CHOOSE p \in first..Len(s) :
                        /\ s[p] \notin Whitespace
                        /\ \A q \in (p + 1)..Len(s) : s[q] \in Whitespace
    IN SubSeq(s, first, last)

\* str.split("\n")
RECURSIVE split(_)
split(s) ==
    LET nl == {p \in 1..Len(s) : s[p] = "\n"}
    IN IF nl = {} THEN <<s>>
       ELSE <<SubSeq(s, 1, Min(nl) - 1)>> \o split(SubSeq(s, Min(nl) + 1, Len(s)))

\* "\n".join(lines)
RECURSIVE join(_)
join(lines) ==
    IF lines = <<>> THEN <<>>
    ELSE IF Len(lines) = 1 THEN lines[1]
    ELSE lines[1] \o <<"\n">> \o join(Tail(lines))

(***************************************************************************)
(* FinancialPipeline._strip_markdown                                       *)
(***************************************************************************)
\* where the group opened by delimiter d at index i closes (the nearest later
\* d: the bold and italic groups are lazy, the code group excludes the
\* backtick); 0 = no match at i.  dot: the group is made of ".", which does
\* not match a newline.
CloseOf(s, d, i, dot) ==
    LET from == i + Len(d)
        c == {p \in from..Len(s) :
                /\ At(s, p, d)
                /\ dot => \A q \in from..(p - 1) : s[q] # "\n"}
    IN IF At(s, i, d) /\ c # {} THEN Min(c) ELSE 0

\* re.sub of a delimited group by the group itself, scanning from index i
RECURSIVE SubPair(_, _, _, _)
SubPair(s, d, dot, i) ==
    IF i > Len(s) THEN <<>>
    ELSE LET close == CloseOf(s, d, i, dot)
         IN IF close # 0
            THEN SubSeq(s, i + Len(d), close - 1) \o SubPair(s, d, dot, close + Len(d))
            ELSE <<s[i]>> \o SubPair(s, d, dot, i + 1)

\* re.sub(r"#+\s*", "", s), scanning from index i
RECURSIVE SubHeader(_, _)
SubHeader(s, i) ==
    IF i > Len(s) THEN <<>>
    ELSE IF s[i] = "#"
         THEN SubHeader(s, SkipWhile(s, SkipWhile(s, i, {"#"}), Whitespace))
         ELSE <<s[i]>> \o SubHeader(s, i + 1)

\* re.sub(r"^[-•]\s*", "", s, flags=re.M), scanning from index i
RECURSIVE SubBullet(_, _)
SubBullet(s, i) ==
    IF i > Len(s) THEN <<>>
    ELSE IF s[i] \in {"-", "BULLET"} /\ (i = 1 \/ s[i - 1] = "\n")
         THEN SubBullet(s, SkipWhile(s, i + 1, Whitespace))
         ELSE <<s[i]>> \o SubBullet(s, i + 1)

strip_markdown(s) ==
    LET bold == SubPair(s, <<"*", "*">>, TRUE, 1)
        italic == SubPair(bold, <<"*">>, TRUE, 1)
        headers == SubHeader(italic, 1)
        bullets == SubBullet(headers, 1)
        code == SubPair(bullets, <<"BACKTICK">>, FALSE, 1)
    IN strip(code)


(***************************************************************************)
(* StyledPDF                                                               *)
(***************************************************************************)
\* "FINANCIAL ANALYSIS REPORT", the text StyledPDF.header prints
ReportTitle ==
    <<"F", "I", "N", "A", "N", "C", "I", "A", "L", " ",
      "A", "N", "A", "L", "Y", "S", "I", "S", " ",
      "R", "E", "P", "O", "R", "T">>

\* FPDF.cell / FPDF.multi_cell accept the text: a font added with add_font
\* takes any character, a built-in font ("Arial") encodes the text as Latin-1
\* and raises on a character outside it
CanRender(font, t) ==
    font \/ \A i \in 1..Len(t) : t[i] \notin NonLatin1

IsAscii(c) == c \notin NonAscii

\* a new StyledPDF after add_page
NewPdf(font) == [custom_font |-> font, blocks |-> <<>>, error |-> ""]

section_title(pdf, title) ==
    IF CanRender(pdf.custom_font, title)
    THEN [pdf EXCEPT !.blocks = Append(@, [kind |-> "title", text |-> title])]
    ELSE [pdf EXCEPT !.error = "FPDFUnicodeEncodingException"]

section_body(pdf, t) ==
    LET clean_text == SelectSeq(t, IsAscii)
    IN IF CanRender(pdf.custom_font, t)
       THEN [pdf EXCEPT !.blocks = Append(@, [kind |-> "body", text |-> t])]
       ELSE [pdf EXCEPT !.blocks = Append(@, [kind |-> "body", text |-> clean_text])]

(***************************************************************************)
(* generate_pdf_report                                                     *)
(***************************************************************************)
\* the header test as it would be with the length test off by one
IsSectionHeaderLen3(line_strip) ==
    /\ EndsWith(line_strip, <<":">>)
    /\ Len(line_strip) >= 3
    /\ line_strip # ReportTitle

\* the test of line 82 on a stripped line
IsSectionHeader(line_strip) ==
    /\ EndsWith(line_strip, <<":">>)
    /\ Len(line_strip) > 3
    /\ line_strip # ReportTitle

\* the test of line 89 on a stripped line
IsSkipped(line_strip) ==
    \/ line_strip = ReportTitle
    \/ StartsWith(line_strip, <<"=", "=", "=", "=">>)

\* lines 84-86 (and 97-99): render the pending section.  sections records the
\* (title, current_section) pairs handed to the renderer.
RenderSection(st) ==
    LET titled == section_title(st.pdf, st.title)
        body_text == join(st.current_section)
        logged == Append(st.sections,
                         [title |-> st.title, body |-> st.current_section])
    IN IF titled.error # ""
       THEN [st EXCEPT !.pdf = titled, !.sections = logged]
       ELSE [st EXCEPT !.pdf = section_body(titled, body_text), !.sections = logged]

\* one iteration of the loop of lines 78-93; title = <<>> stands for None
\* (both are false in "if title")
ProcessLine(st, line) ==
    LET line_strip == strip(line)
    IN IF st.pdf.error # "" THEN st
       ELSE IF IsSectionHeader(line_strip)
       THEN IF st.title # <<>> /\ st.current_section # <<>>
            THEN [RenderSection(st) EXCEPT !.current_section = <<>>,
                                           !.title = line_strip]
            ELSE [st EXCEPT !.title = line_strip]
       ELSE IF IsSkipped(line_strip) THEN st
       ELSE IF line_strip # <<>>
       THEN [st EXCEPT !.current_section = Append(@, line)]
       ELSE st

RECURSIVE ProcessLines(_, _, _)
ProcessLines(st, lines, i) ==
    IF i > Len(lines) THEN st
    ELSE ProcessLines(ProcessLine(st, lines[i]), lines, i + 1)

NoReport == [status |-> "none", sections |-> <<>>, blocks |-> <<>>, error |-> ""]

generate_pdf_report(t, font, canWrite) ==
    LET lines == split(t)
        st0 == [title |-> <<>>, current_section |-> <<>>,
                pdf |-> NewPdf(font), sections |-> <<>>]
        st1 == ProcessLines(st0, lines, 1)
        st2 == IF st1.pdf.error = "" /\ st1.title # <<>> /\ st1.current_section # <<>>
               THEN RenderSection(st1)
               ELSE st1
    IN IF st2.pdf.error # ""
       THEN [status |-> "raised", sections |-> st2.sections,
             blocks |-> st2.pdf.blocks, error |-> st2.pdf.error]
       ELSE IF ~canWrite
       THEN [status |-> "raised", sections |-> st2.sections,
             blocks |-> st2.pdf.blocks, error |-> "OSError"]
       ELSE [status |-> "written", sections |-> st2.sections,
             blocks |-> st2.pdf.blocks, error |-> ""]

(***************************************************************************)
(* helper.py: read_file_to_df                                              *)
(*                                                                         *)
(* A path is modelled with what the file system holds there:               *)
(*   [name, ext, exists, rows, columns]                                    *)
(* rows and columns being those of the table a tabular file parses to.     *)
(***************************************************************************)
\* str.lower() on the extension spellings used
Lower(ext) ==
    CASE ext = ".XLSX" -> ".xlsx"
      [] ext = ".CSV" -> ".csv"
      [] OTHER -> ext

Raise(exc) == [ok |-> FALSE, error |-> exc]
Return(v) == [ok |-> TRUE, value |-> v]

\* pd.read_csv / pd.read_excel
ReadTable(path) ==
    IF path.exists
    THEN Return([rows |-> path.rows, columns |-> path.columns])
    ELSE Raise("FileNotFoundError")

\* _extract_pdf / _extract_docx: one row, one column "content"
ExtractText(path) ==
    IF path.exists
    THEN Return([rows |-> 1, columns |-> {"content"}])
    ELSE Raise("FileNotFoundError")

read_file_to_df(path) ==
    LET ext == Lower(path.ext)
    IN IF ext = ".csv" THEN ReadTable(path)
       ELSE IF ext \in {".xls", ".xlsx"} THEN ReadTable(path)
       ELSE IF ext = ".pdf" THEN ExtractText(path)
       ELSE IF ext = ".docx" THEN ExtractText(path)
       ELSE Raise("ValueError")

RECURSIVE SumRows(_)
SumRows(dfs) == IF dfs = <<>> THEN 0 ELSE Head(dfs).rows + SumRows(Tail(dfs))

\* concat as it would be if an empty list gave an empty frame instead of raising
concat_empty_frame(dfs) ==
    Return([rows |-> SumRows(dfs),
            columns |-> UNION {dfs[i].columns : i \in 1..Len(dfs)}])

\* pd.concat(dfs, ignore_index=True, sort=False): raises ValueError
\* ("No objects to concatenate") on an empty list
concat(dfs) ==
    IF dfs = <<>> THEN Raise("ValueError")
    ELSE Return([rows |-> SumRows(dfs),
                 columns |-> UNION {dfs[i].columns : i \in 1..Len(dfs)}])

\* helper.prepare_financial_data, lines 61-92: the loop that logs and skips a
\* file whose extraction raises, then the concatenation
RECURSIVE ReadAllSoft(_)
ReadAllSoft(paths) ==
    IF paths = <<>> THEN <<>>
    ELSE LET r == read_file_to_df(Head(paths))
         IN (IF r.ok THEN <<r.value>> ELSE <<>>) \o ReadAllSoft(Tail(paths))

prepare_financial_data(paths) == concat(ReadAllSoft(paths))

(***************************************************************************)
(* Numbers and their formatting in f-strings                               *)
(***************************************************************************)
Digit(d) == CASE d = 0 -> "0" [] d = 1 -> "1" [] d = 2 -> "2" [] d = 3 -> "3"
              [] d = 4 -> "4" [] d = 5 -> "5" [] d = 6 -> "6" [] d = 7 -> "7"
              [] d = 8 -> "8" [] d = 9 -> "9"

\* str(n) of an int n >= 0
RECURSIVE Str(_)
Str(n) == IF n < 10 THEN <<Digit(n)>> ELSE Str(n \div 10) \o <<Digit(n % 10)>>

\* A Python number is [type, h]: the value is h / 100, type is "int" or "float".
\* repr of a float with at most two decimals; str of an int
FormatNumber(x) ==
    IF x.type = "int" THEN Str(x.h \div 100)
    ELSE Str(x.h \div 100) \o <<".">> \o
         (IF x.h % 10 = 0 THEN <<Digit((x.h % 100) \div 10)>>
          ELSE <<Digit((x.h % 100) \div 10), Digit(x.h % 10)>>)

\* round(count * 0.1, 2): count * 0.1 is count * 100 thousandths, rounded to
\* hundredths (half to even)
RoundTenths(count) ==
    LET th == count * 100
        q == th \div 10
        r == th % 10
    IN [type |-> "float",
        h |-> IF r > 5 \/ (r = 5 /\ q % 2 = 1) THEN q + 1 ELSE q]

\* min(100, x): the first argument unless the second is smaller
MinHundred(x) == IF x.h < 10000 THEN x ELSE [type |-> "int", h |-> 10000]

\* risk_score as it would be without the clamp at 100
risk_score_unclamped(count) == RoundTenths(count)

\* agent.py line 70
risk_score(count) == MinHundred(RoundTenths(count))

(***************************************************************************)
(* agent.py                                                                *)
(***************************************************************************)
\* The value Agent.run returns: a RunResponse with .content, or a plain str
IsRunResponse(obj) == obj.type = "RunResponse"

\* FinancialPipeline._safe_text
safe_text(obj) == IF IsRunResponse(obj) THEN obj.content ELSE obj.value

TextRead == 
    <<"R", "e", "a", "d", " ">>
TextFilesShape == 
    <<" ", "f", "i", "l", "e", "s", ".", " ", "C", "o", "m", "b", "i", "n",
      "e", "d", " ", "d", "a", "t", "a", "f", "r", "a", "m", "e", " ", "h",
      "a", "s", " ", "s", "h", "a", "p", "e", " ">>

\* f"{combined.shape}"
FormatShape(df) ==
    <<"(">> \o Str(df.rows) \o <<",", " ">> \o Str(Cardinality(df.columns)) \o <<")">>

\* DataAssistantAgent.run up to the call of the agent: every file is read, a
\* failure of read_file_to_df propagates
RECURSIVE ReadAll(_)
ReadAll(paths) ==
    IF paths = <<>> THEN Return(<<>>)
    ELSE LET r == read_file_to_df(Head(paths))
             rest == ReadAll(Tail(paths))
         IN IF ~r.ok THEN r
            ELSE IF ~rest.ok THEN rest
            ELSE Return(<<r.value>> \o rest.value)

DataAssistantPrepare(paths) ==
    LET dfs == ReadAll(paths)
        combined == concat(dfs.value)
    IN IF ~dfs.ok THEN dfs
       ELSE IF ~combined.ok THEN combined
       ELSE Return([dataframe |-> combined.value,
                    raw_summary |-> TextRead \o Str(Len(paths)) \o TextFilesShape
                                    \o FormatShape(combined.value) \o <<".">>,
                    prompt |-> [shape |-> FormatShape(combined.value),
                                columns |-> combined.value.columns]])

\* RiskAssessorAgent.run up to the call of the agent
RiskAssessorPrepare(input_data) ==
    LET count == input_data.dataframe.rows
    IN [risk_score |-> risk_score(count),
        prompt |-> [count |-> count,
                    risk_score |-> risk_score(count),
                    data_comments |-> input_data.data_comments]]

\* MarketStrategistAgent.run up to the call of the agent
MarketStrategistPrepare(input_data) ==
    [prompt |-> [score |-> input_data.risk_score,
                 risk_narrative |-> input_data.risk_narrative,
                 data_insights |-> input_data.data_insights]]

(***************************************************************************)
(* FinancialPipeline.execute: the report text                              *)
(***************************************************************************)
\* "=" * 60
RECURSIVE Repeat(_, _)
Repeat(c, n) == IF n = 0 THEN <<>> ELSE <<c>> \o Repeat(c, n - 1)

TextDataSummary == 
    <<"D", "a", "t", "a", " ", "P", "r", "o", "c", "e", "s", "s", "i", "n",
      "g", " ", "S", "u", "m", "m", "a", "r", "y", ":">>
TextDataInsights == 
    <<"D", "a", "t", "a", " ", "A", "n", "a", "l", "y", "s", "i", "s", " ",
      "I", "n", "s", "i", "g", "h", "t", "s", ":">>
TextRiskEvaluation == 
    <<"R", "i", "s", "k", " ", "E", "v", "a", "l", "u", "a", "t", "i", "o",
      "n", ":">>
TextRiskScore == 
    <<"C", "a", "l", "c", "u", "l", "a", "t", "e", "d", " ", "R", "i", "s",
      "k", " ", "S", "c", "o", "r", "e", ":", " ">>
TextOutOf100 == 
    <<"/", "1", "0", "0">>
TextRiskDetails == 
    <<"R", "i", "s", "k", " ", "A", "s", "s", "e", "s", "s", "m", "e", "n",
      "t", " ", "D", "e", "t", "a", "i", "l", "s", ":">>
TextStrategy == 
    <<"M", "a", "r", "k", "e", "t", " ", "S", "t", "r", "a", "t", "e", "g",
      "y", " ", "R", "e", "c", "o", "m", "m", "e", "n", "d", "a", "t", "i",
      "o", "n", "s", ":">>

\* lines 141-162
report_lines(d_out, r_out, s_out) ==
    << ReportTitle, Repeat("=", 60), <<>>,
       TextDataSummary, d_out.raw_summary, <<>>,
       TextDataInsights, safe_text(d_out.llm_comments), <<>>,
       TextRiskEvaluation,
       TextRiskScore \o FormatNumber(r_out.risk_score) \o TextOutOf100, <<>>,
       TextRiskDetails, safe_text(r_out.llm_risk_narrative), <<>>,
       TextStrategy, safe_text(s_out.llm_strategy), <<>> >>

\* lines 165-166
full_text(d_out, r_out, s_out) ==
    LET lines == report_lines(d_out, r_out, s_out)
    IN join([k \in 1..Len(lines) |-> strip_markdown(lines[k])])

(***************************************************************************)
(* _strip_markdown applied to a string, then to its own result             *)
(***************************************************************************)
\* the variables of the parts a specification does not exercise
PipeIdle ==
    /\ pc = "idle" /\ file_paths = <<>> /\ data_out = <<>> /\ risk_out = <<>>
    /\ strat_in = <<>> /\ strat_out = <<>> /\ frame = <<>> /\ calls = <<>>
    /\ error = ""

PdfIdle ==
    /\ text = <<>> /\ custom_font = FALSE /\ writable = FALSE /\ report = NoReport

MdIdle ==
    /\ md_in = <<>> /\ md_prev = <<>> /\ md_out = <<>> /\ md_pass = 0

MdChars == {"a", "*", "#", "-", " ", "BACKTICK", "\n"}

RECURSIVE StringsUpTo(_, _)
StringsUpTo(chars, n) ==
    IF n = 0 THEN {<<>>}
    ELSE LET shorter == StringsUpTo(chars, n - 1)
         IN shorter \cup {Append(s, c) : s \in shorter, c \in chars}

InitMd ==
    /\ md_in \in StringsUpTo(MdChars, MaxMdLen)
    /\ md_prev = md_in
    /\ md_out = md_in
    /\ md_pass = 0
    /\ PipeIdle
    /\ PdfIdle

StripMarkdown ==
    /\ md_pass < 2
    /\ md_prev' = md_out
    /\ md_out' = strip_markdown(md_out)
    /\ md_pass' = md_pass + 1
    /\ UNCHANGED <<md_in, pipeVars, pdfVars>>

NextMd == StripMarkdown

SpecMd == InitMd /\ [][NextMd]_vars

(***************************************************************************)
(* generate_pdf_report applied to a flat text                              *)
(***************************************************************************)
LineOver == <<"O", "v", "e", "r", ":">>
LineOv == <<"O", "v", ":">>
LineRiskPadded == <<" ", "R", "i", "s", "k", ":", " ">>
LineBody == <<"A", " ", "b">>
LineEmpty == <<>>
LineBlank == <<" ">>
LineSeparator == <<"=", "=", "=", "=", "=">>
LineArrowHeader == <<"U", "p", " ", "ARROW", ":">>
LineArrowBody == <<"x", "ARROW", "EACUTE">>

PdfLines ==
    {LineOver, LineOv, LineRiskPadded, LineBody, LineEmpty, LineBlank,
     ReportTitle, LineSeparator, LineArrowHeader, LineArrowBody}

\* "Overview:\nLine A\nLine B\nRisk:\nLine C\n"
ExampleText ==
    <<"O", "v", "e", "r", "v", "i", "e", "w", ":", "\n",
      "L", "i", "n", "e", " ", "A", "\n",
      "L", "i", "n", "e", " ", "B", "\n",
      "R", "i", "s", "k", ":", "\n",
      "L", "i", "n", "e", " ", "C", "\n">>

RECURSIVE LineSeqsUpTo(_)
LineSeqsUpTo(n) ==
    IF n = 0 THEN {<<>>}
    ELSE LET shorter == LineSeqsUpTo(n - 1)
         IN shorter \cup {Append(ls, l) : ls \in shorter, l \in PdfLines}

PdfTexts == {join(ls) : ls \in LineSeqsUpTo(MaxLines)} \cup {ExampleText}

InitPdf ==
    /\ text \in PdfTexts
    /\ custom_font \in BOOLEAN
    /\ writable \in BOOLEAN
    /\ report = NoReport
    /\ PipeIdle
    /\ MdIdle

GeneratePdfReport ==
    /\ report.status = "none"
    /\ report' = generate_pdf_report(text, custom_font, writable)
    /\ UNCHANGED <<text, custom_font, writable, pipeVars, mdVars>>

NextPdf == GeneratePdfReport

SpecPdf == InitPdf /\ [][NextPdf]_vars

(***************************************************************************)
(* FinancialPipeline.execute                                               *)
(***************************************************************************)
FileCsv ==
    [name |-> "q1", ext |-> ".csv", exists |-> TRUE, rows |-> 7,
     columns |-> {"Totals.Revenue", "Totals.Expenditure"}]
FileXlsxUpper ==
    [name |-> "history", ext |-> ".XLSX", exists |-> TRUE, rows |-> 993,
     columns |-> {"Totals.Revenue", "Year"}]
FilePdf ==
    [name |-> "notes", ext |-> ".pdf", exists |-> TRUE, rows |-> 0,
     columns |-> {}]
FileTxt ==
    [name |-> "readme", ext |-> ".txt", exists |-> TRUE, rows |-> 0,
     columns |-> {}]
FileMissing ==
    [name |-> "gone", ext |-> ".csv", exists |-> FALSE, rows |-> 0,
     columns |-> {}]

Files == {FileCsv, FileXlsxUpper, FilePdf, FileTxt, FileMissing}

RECURSIVE PathListsUpTo(_)
PathListsUpTo(n) ==
    IF n = 0 THEN {<<>>}
    ELSE LET shorter == PathListsUpTo(n - 1)
         IN shorter \cup {Append(ps, f) : ps \in shorter, f \in Files}

\* what the narrative-generation call may return
ResponsePlain == [type |-> "str", value |-> <<"o", "k">>]
ResponseMarkdown ==
    [type |-> "RunResponse", content |-> 
        <<"*", "*", "K", "e", "y", ":", "*", "*", "\n", "-", " ", "a">>]
ResponseArrow ==
    [type |-> "RunResponse", content |->
        <<"U", "p", " ", "ARROW", ":", "\n", "x", "ARROW", "EACUTE">>]

Responses == {ResponsePlain, ResponseMarkdown, ResponseArrow}

InitPipe ==
    /\ pc = "start"
    /\ file_paths \in PathListsUpTo(MaxFiles)
    /\ data_out = <<>> /\ risk_out = <<>> /\ strat_in = <<>> /\ strat_out = <<>>
    /\ frame = <<>> /\ calls = <<>> /\ error = ""
    /\ text = <<>>
    /\ custom_font \in BOOLEAN
    /\ writable \in BOOLEAN
    /\ report = NoReport
    /\ MdIdle

Issue(stage) == [stage |-> stage, ev |-> "issue"]
Returned(stage) == [stage |-> stage, ev |-> "return"]
Failed(stage) == [stage |-> stage, ev |-> "fail"]

\* line 120, DataAssistantAgent.run up to self.agent.run(prompt)
DataStageIssue ==
    /\ pc = "start"
    /\ LET r == DataAssistantPrepare(file_paths)
       IN IF r.ok
          THEN /\ frame' = r.value
               /\ calls' = Append(calls, Issue("DataStage"))
               /\ pc' = "data_call"
               /\ error' = error
          ELSE /\ pc' = "failed"
               /\ error' = r.error
               /\ UNCHANGED <<frame, calls>>
    /\ UNCHANGED <<file_paths, data_out, risk_out, strat_in, strat_out, pdfVars, mdVars>>

\* agent.py lines 48-54
DataStageReturn ==
    /\ pc = "data_call"
    /\ \E response \in Responses :
          data_out' = [dataframe |-> frame.dataframe,
                       raw_summary |-> frame.raw_summary,
                       llm_comments |-> response]
    /\ calls' = Append(calls, Returned("DataStage"))
    /\ pc' = "risk"
    /\ UNCHANGED <<file_paths, risk_out, strat_in, strat_out, frame, error, pdfVars, mdVars>>

\* lines 124-128, RiskAssessorAgent.run up to self.agent.run(prompt)
RiskStageIssue ==
    /\ pc = "risk"
    /\ LET risk_in == [dataframe |-> data_out.dataframe,
                       data_comments |-> safe_text(data_out.llm_comments)]
       IN frame' = RiskAssessorPrepare(risk_in)
    /\ calls' = Append(calls, Issue("RiskStage"))
    /\ pc' = "risk_call"
    /\ UNCHANGED <<file_paths, data_out, risk_out, strat_in, strat_out, error, pdfVars, mdVars>>

\* RiskStageReturn as it would be if the stage were run again after its call
\* returned
RiskStageReturnAgain ==
    /\ pc = "risk_call"
    /\ \E response \in Responses :
          risk_out' = [risk_score |-> frame.risk_score,
                       llm_risk_narrative |-> response]
    /\ calls' = Append(calls, Returned("RiskStage"))
    /\ pc' = IF Len(calls) < 6 THEN "risk" ELSE "strategy"
    /\ UNCHANGED <<file_paths, data_out, strat_in, strat_out, frame, error, pdfVars, mdVars>>

\* agent.py lines 101-106
RiskStageReturn ==
    /\ pc = "risk_call"
    /\ \E response \in Responses :
          risk_out' = [risk_score |-> frame.risk_score,
                       llm_risk_narrative |-> response]
    /\ calls' = Append(calls, Returned("RiskStage"))
    /\ pc' = "strategy"
    /\ UNCHANGED <<file_paths, data_out, strat_in, strat_out, frame, error, pdfVars, mdVars>>

\* lines 132-137, MarketStrategistAgent.run up to self.agent.run(prompt)
StrategyStageIssue ==
    /\ pc = "strategy"
    /\ strat_in' = [risk_score |-> risk_out.risk_score,
                    risk_narrative |-> safe_text(risk_out.llm_risk_narrative),
                    data_insights |-> safe_text(data_out.llm_comments)]
    /\ frame' = MarketStrategistPrepare(strat_in')
    /\ calls' = Append(calls, Issue("StrategyStage"))
    /\ pc' = "strategy_call"
    /\ UNCHANGED <<file_paths, data_out, risk_out, strat_out, error, pdfVars, mdVars>>

\* agent.py lines 140-144
StrategyStageReturn ==
    /\ pc = "strategy_call"
    /\ \E response \in Responses : strat_out' = [llm_strategy |-> response]
    /\ calls' = Append(calls, Returned("StrategyStage"))
    /\ pc' = "compose"
    /\ UNCHANGED <<file_paths, data_out, risk_out, strat_in, frame, error, pdfVars, mdVars>>

StageOf(p) ==
    CASE p = "data_call" -> "DataStage"
      [] p = "risk_call" -> "RiskStage"
      [] p = "strategy_call" -> "StrategyStage"

\* CallFails as it would be if the failure were caught and the stage tried again
CallFailsRetried ==
    /\ pc \in {"data_call", "risk_call", "strategy_call"}
    /\ Len(calls) < 8
    /\ calls' = Append(calls, Failed(StageOf(pc)))
    /\ pc' = (CASE pc = "data_call" -> "start"
               [] pc = "risk_call" -> "risk"
               [] pc = "strategy_call" -> "strategy")
    /\ UNCHANGED <<file_paths, data_out, risk_out, strat_in, strat_out, frame, error,
                   pdfVars, mdVars>>

\* self.agent.run(prompt) raises: neither the agent nor execute catches it
CallFails ==
    /\ pc \in {"data_call", "risk_call", "strategy_call"}
    /\ calls' = Append(calls, Failed(StageOf(pc)))
    /\ pc' = "failed"
    /\ error' = "ExternalServiceFailure"
    /\ UNCHANGED <<file_paths, data_out, risk_out, strat_in, strat_out, frame, pdfVars, mdVars>>

\* lines 140-176
ComposeReport ==
    /\ pc = "compose"
    /\ text' = full_text(data_out, risk_out, strat_out)
    /\ report' = generate_pdf_report(text', custom_font, writable)
    /\ pc' = IF report'.status = "written" THEN "done" ELSE "failed"
    /\ error' = report'.error
    /\ UNCHANGED <<file_paths, data_out, risk_out, strat_in, strat_out, frame, calls,
                   custom_font, writable, mdVars>>

Next ==
    \/ DataStageIssue
    \/ DataStageReturn
    \/ RiskStageIssue
    \/ RiskStageReturn
    \/ StrategyStageIssue
    \/ StrategyStageReturn
    \/ CallFails
    \/ ComposeReport

Spec == InitPipe /\ [][Next]_vars

(***************************************************************************)
(* Properties of FinancialPipeline.execute                                 *)
(***************************************************************************)
StageOrder == <<"DataStage", "RiskStage", "StrategyStage">>

IssuesUpTo(i) == Cardinality({j \in 1..i : calls[j].ev = "issue"})

\* C1: the narrative-generation calls are issued in the order DataStage,
\* RiskStage, StrategyStage, one per stage (the k-th call issued is that of the
\* k-th stage, so no stage is called twice and none is skipped); a stage's call
\* is issued only after the previous stage's call has returned; the report is
\* generated only after the three calls have returned.
C1_StagesInOrder ==
    /\ \A i \in 1..Len(calls) :
          calls[i].ev = "issue" =>
             /\ IssuesUpTo(i) <= 3
             /\ calls[i].stage = StageOrder[IssuesUpTo(i)]
             /\ i > 1 => calls[i - 1] = Returned(StageOrder[IssuesUpTo(i) - 1])
    /\ report.status # "none" =>
          \A k \in 1..3 : \E i \in 1..Len(calls) : calls[i] = Returned(StageOrder[k])
    /\ pc = "done" => IssuesUpTo(Len(calls)) = 3

\* C1 witness: a run that wrote its report after exactly three calls
C1_Witness ==
    pc = "done" /\ report.status = "written" /\ Len(calls) = 6

\* C2: a failed narrative-generation call is the last event of the run: the run
\* is aborted with that failure, no call follows it (no later stage, no retry)
\* and no report is generated.
C2_FailureAborts ==
    \A i \in 1..Len(calls) :
       calls[i].ev = "fail" =>
          /\ i = Len(calls)
          /\ pc = "failed"
          /\ error = "ExternalServiceFailure"
          /\ report.status = "none"

\* C2 witness: the call of the second stage failed
C2_Witness ==
    Len(calls) = 4 /\ calls[4] = Failed("RiskStage")

\* a path from which a record set can be extracted: the file is there and its
\* extension (whatever its case) is one of the supported ones
Extractable(path) ==
    /\ path.exists
    /\ Lower(path.ext) \in {".csv", ".xls", ".xlsx", ".pdf", ".docx"}

ExtractableIdx == {i \in 1..Len(file_paths) : Extractable(file_paths[i])}

\* the rows of the record set of an extractable path
RowsOf(path) == IF Lower(path.ext) \in {".pdf", ".docx"} THEN 1 ELSE path.rows

RECURSIVE RowsOfAll(_)
RowsOfAll(idx) ==
    IF idx = {} THEN 0
    ELSE LET i == Min(idx) IN RowsOf(file_paths[i]) + RowsOfAll(idx \ {i})

\* C3: a file whose extraction fails is left out and the run goes on: a run
\* given at least one extractable file is not aborted by the ingestion, and its
\* combined record set is built from exactly the extractable files.
C3_SoftFailIngestion ==
    (pc # "start" /\ ExtractableIdx # {}) =>
       /\ calls # <<>>
       /\ (Len(calls) >= 2 /\ calls[2].ev = "return") =>
             data_out.dataframe.rows = RowsOfAll(ExtractableIdx)

\* C4: when no input file yields a record set (no path, or no extractable
\* path), the run fails: no narrative-generation call is issued, no report is
\* generated and the run never completes.
C4_NoRecordSetFails ==
    ExtractableIdx = {} =>
       /\ calls = <<>>
       /\ report.status = "none"
       /\ pc \in {"start", "failed"}
       /\ pc = "failed" => error \in {"ValueError", "FileNotFoundError"}

\* C4 witness: the run given an empty list of paths has failed
C4_Witness ==
    file_paths = <<>> /\ pc = "failed" /\ error = "ValueError"

\* the value, in hundredths, of a decimal numeral with at most two decimals
DigitValue(c) == CHOOSE d \in 0..9 : Digit(d) = c

RECURSIVE IntValue(_)
IntValue(ds) ==
    IF ds = <<>> THEN 0
    ELSE 10 * IntValue(SubSeq(ds, 1, Len(ds) - 1)) + DigitValue(ds[Len(ds)])

DecimalValue(num) ==
    LET dots == {p \in 1..Len(num) : num[p] = "."}
    IN IF dots = {} THEN 100 * IntValue(num)
       ELSE LET p == Min(dots)
                frac == SubSeq(num, p + 1, Len(num))
            IN 100 * IntValue(SubSeq(num, 1, p - 1))
               + (IF Len(frac) = 1 THEN 10 * IntValue(frac) ELSE IntValue(frac))

\* the record counts the inputs drawn can have
RowCounts == {SumRows(ReadAllSoft(ps)) : ps \in PathListsUpTo(MaxFiles)}

\* the numeral printed in the risk line of the "Risk Evaluation:" section
RiskLineNumerals ==
    {SubSeq(report.sections[k].body[1],
            Len(TextRiskScore) + 1,
            Len(report.sections[k].body[1]) - Len(TextOutOf100)) :
        k \in {j \in 1..Len(report.sections) :
                 /\ report.sections[j].title = TextRiskEvaluation
                 /\ Len(report.sections[j].body) = 1
                 /\ StartsWith(report.sections[j].body[1], TextRiskScore)
                 /\ EndsWith(report.sections[j].body[1], TextOutOf100)}}

\* C9: the risk score of a record set of n records is n * 0.1 for n < 1000
\* and exactly 100 for n >= 1000, never above 100 and not below the score of a
\* smaller record set; the same value is handed to the StrategyStage and
\* printed in the risk line of the report.  (Scores are in hundredths.)
C9_RiskScore ==
    (Len(calls) >= 4 /\ calls[4].ev = "return") =>
       LET n == data_out.dataframe.rows
           score == risk_out.risk_score
       IN /\ score.h <= 100 * 100
          /\ n < 1000 => score.h = n * 10
          /\ n >= 1000 => score.h = 100 * 100
          /\ \A m \in RowCounts : m <= n => risk_score(m).h <= score.h
          /\ Len(calls) >= 5 => strat_in.risk_score = score
          /\ report.status = "written" =>
                /\ Cardinality(RiskLineNumerals) = 1
                /\ \A num \in RiskLineNumerals : DecimalValue(num) = score.h

\* C9 witness: a report written for a record set of more than 1000 records
C9_Witness ==
    /\ pc = "done"
    /\ report.status = "written"
    /\ data_out.dataframe.rows > 1000

(***************************************************************************)
(* The Section Parser as section 4.4 states it, over the lines of text     *)
(***************************************************************************)
TextLines == split(text)

\* a line is a section boundary iff, trimmed, it ends with ':', is longer
\* than 3 and is not the report title
BoundaryLine(l) ==
    LET t == strip(l)
    IN Len(t) > 3 /\ t[Len(t)] = ":" /\ t # ReportTitle

\* the report title line and the separator lines
DecorationLine(l) ==
    LET t == strip(l)
    IN /\ ~BoundaryLine(l)
       /\ \/ t = ReportTitle
          \/ Len(t) >= 4 /\ \A k \in 1..4 : t[k] = "="

\* a line that belongs to a body: not empty, not a boundary, not decoration
BodyLine(l) == strip(l) # <<>> /\ ~BoundaryLine(l) /\ ~DecorationLine(l)

BoundaryIdx == {i \in 1..Len(TextLines) : BoundaryLine(TextLines[i])}

\* the body lines before the first boundary
PreambleIdx ==
    {i \in 1..Len(TextLines) :
        BodyLine(TextLines[i]) /\ \A b \in BoundaryIdx : i < b}

\* the indices of the body lines between boundary b and the next boundary
BodyIdx(b) ==
    {i \in (b + 1)..Len(TextLines) :
        /\ BodyLine(TextLines[i])
        /\ \A c \in BoundaryIdx : c > b => i < c}

\* the elements of a set of indices, in increasing order
RECURSIVE Ascending(_)
Ascending(S) == IF S = {} THEN <<>> ELSE <<Min(S)>> \o Ascending(S \ {Min(S)})

LinesAt(idx) == [k \in 1..Len(idx) |-> TextLines[idx[k]]]

\* the sections of the text: one per boundary that has body lines, in order
StatedSections ==
    LET withBody == Ascending({b \in BoundaryIdx : BodyIdx(b) # {}})
    IN [k \in 1..Len(withBody) |->
          [title |-> strip(TextLines[withBody[k]]),
           body |-> LinesAt(Ascending(BodyIdx(withBody[k])))]]

IsPrefix(a, b) == Len(a) <= Len(b) /\ \A k \in 1..Len(a) : a[k] = b[k]

\* C5: text before the first boundary line is discarded: no line of the
\* preamble is in the body of an emitted section.  (Stated for the texts in
\* which no preamble line is repeated after the first boundary, so that a body
\* line equal to a preamble line can only be the preamble line.)
C5_PreambleDiscarded ==
    (/\ report.status # "none"
     /\ \A i \in PreambleIdx : \A j \in 1..Len(TextLines) :
            j \notin PreambleIdx => TextLines[j] # TextLines[i])
    => \A n \in 1..Len(report.sections) :
          \A k \in 1..Len(report.sections[n].body) :
             \A i \in PreambleIdx : report.sections[n].body[k] # TextLines[i]

C6_WitnessExample ==
    report.status = "written" /\ text = ExampleText

\* C7: rendering never fails because of content: the only error generating
\* the document can end with is that of an unwritable output path.  (Stated
\* for the texts with no preamble.)
C7_RenderFailsOnlyOnOutput ==
    (report.status = "raised" /\ PreambleIdx = {})
    => (report.error = "OSError" /\ ~writable)

\* C10: every emitted section has a body line and no body line is empty when
\* trimmed; a boundary with no body line before the next boundary (or the end)
\* yields no section (stated for the boundaries whose title no other boundary
\* has); and there are no more sections than boundary lines.
C10_NoEmptySections ==
    report.status # "none" =>
      /\ \A n \in 1..Len(report.sections) :
            /\ report.sections[n].body # <<>>
            /\ \A k \in 1..Len(report.sections[n].body) :
                  strip(report.sections[n].body[k]) # <<>>
      /\ \A b \in BoundaryIdx :
            (/\ BodyIdx(b) = {}
             /\ \A c \in BoundaryIdx \ {b} :
                   strip(TextLines[c]) # strip(TextLines[b]))
            => \A n \in 1..Len(report.sections) :
                  report.sections[n].title # strip(TextLines[b])
      /\ Len(report.sections) <= Cardinality(BoundaryIdx)

\* C8: stripping already-stripped text is a no-op: once _strip_markdown has
\* been applied to a string, applying it again leaves the result unchanged.
C8_StripIdempotent ==
    md_pass = 2 => md_out = md_prev

====
